---------------------------- MODULE Spec2Model ----------------------------
(***************************************************************************)
(* Model of the per-frame simulation of src/src/sdl3-demo.cpp (the version *)
(* with bullets and parallax, lines 573-1433): the game loop of main, the  *)
(* per-object update, collision response, key handling and the bullet     *)
(* pool.                                                                   *)
(*                                                                         *)
(* Numbers.  The code computes in float; the model computes exactly, in    *)
(* fixed point:                                                            *)
(*   time      in ticks of 1/TICKS second           (deltaTime = dt ticks) *)
(*   velocity  in 1/VS pixel per second                                    *)
(*   position  in 1/PS pixel, PS = VS * TICKS, so that                     *)
(*             position += velocity * deltaTime is  p + v * dt  exactly.   *)
(* Float rounding is not modelled.                                         *)
(***************************************************************************)
EXTENDS Integers, Sequences, FiniteSets, TLC

VARIABLES
    keys,         \* SDLState::keys: the scancodes currently held (A, D, J)
    layers,       \* GameState::layers: <<level objects, character objects>>
    bullets,      \* GameState::bullets: the bullet pool
    playerIndex,  \* GameState::playerIndex (0-based, as in the code)
    mapViewport,  \* GameState::mapViewport
    deltaTime,    \* main's deltaTime of the frame in progress, in ticks
    pc,           \* position of main's loop body: "poll", "bullets", "present"
    frames,       \* number of frames started
    bg2Scroll,    \* GameState::bg2Scroll, in 1/SS of a position unit
    bg3Scroll,    \* GameState::bg3Scroll
    bg4Scroll,    \* GameState::bg4Scroll
    impulses,     \* jump impulses applied since the player last landed
    probe,        \* what the last update of the player did, step by step
    bulletProbes  \* the same for each bullet of the last "Update bullets"

vars == <<keys, layers, bullets, playerIndex, mapViewport, deltaTime, pc, frames,
          bg2Scroll, bg3Scroll, bg4Scroll, impulses, probe, bulletProbes>>

----------------------------------------------------------------------------
(* Units *)

TICKS == 60
VS == 6
PS == VS * TICKS

Px(n) == n * PS
Vel(n) == n * VS

Abs(n) == IF n < 0 THEN -n ELSE n

\* TRUE for every record: used to have a loop's accumulator evaluated at each
\* iteration instead of at the end of the loop.
Evaluated(rec) == DOMAIN rec # {}

\* The value of F at e: a local of the code, bound once and read many times.
With(e, F(_)) == F(e)

----------------------------------------------------------------------------
(* Program constants *)

LAYER_IDX_LEVEL == 0
LAYER_IDX_CHARACTERS == 1
MAP_ROWS == 5
MAP_COLS == 50
TILE_SIZE == 32
logW == 640
logH == 320
GRAVITY == 500
JUMP_FORCE == -200
PLAYER_ACCELERATION == 300
PLAYER_MAX_SPEED == 100
BULLET_SPEED == 600
BULLET_MAX_SPEED == 1000
yVariation == 40
left == 4
right == 24

ANIM_PLAYER_IDLE == 0
ANIM_PLAYER_RUN == 1
ANIM_PLAYER_SLIDE == 2
ANIM_PLAYER_SHOOT == 3
ANIM_PLAYER_SLIDE_SHOOT == 4
ANIM_BULLET_MOVING == 0
ANIM_BULLET_HIT == 1

\* Height of data/bullet.png in pixels (res.texBullet->h): the side of a
\* bullet's collider.  The image is not part of the sources.
BulletTexH == 4

\* createTiles: short map[MAP_ROWS][MAP_COLS]
map ==
    << << 0, 0, 0, 0, 0, 0, 0, 0, 0, 0, 2, 2, 2, 2, 0, 0, 0, 0, 0, 0, 0, 0, 0, 0, 0, 0, 0, 0, 0, 0, 0, 0, 0, 0, 0, 0, 0, 0, 0, 0, 0, 0, 0, 0, 0, 0, 0, 0, 0, 0 >>,
       << 0, 0, 4, 0, 0, 0, 0, 0, 0, 0, 0, 0, 0, 2, 2, 0, 0, 0, 0, 0, 0, 0, 2, 0, 0, 0, 0, 0, 0, 0, 0, 0, 0, 0, 0, 0, 0, 0, 0, 0, 0, 0, 0, 0, 0, 0, 0, 0, 0, 0 >>,
       << 0, 0, 2, 0, 0, 0, 0, 0, 0, 2, 2, 0, 0, 0, 2, 0, 0, 0, 0, 0, 0, 0, 2, 0, 0, 0, 0, 0, 0, 0, 0, 0, 0, 0, 0, 0, 0, 0, 0, 0, 0, 0, 0, 0, 0, 0, 0, 0, 0, 0 >>,
       << 0, 2, 2, 0, 0, 0, 0, 0, 2, 2, 2, 2, 2, 0, 0, 0, 2, 0, 2, 0, 0, 2, 2, 0, 0, 0, 0, 0, 0, 0, 0, 0, 0, 0, 0, 0, 0, 0, 0, 0, 0, 0, 0, 0, 0, 0, 0, 0, 0, 0 >>,
       << 1, 1, 1, 1, 1, 1, 1, 1, 1, 1, 1, 1, 1, 1, 1, 1, 1, 1, 1, 1, 1, 1, 1, 0, 0, 0, 0, 0, 0, 0, 0, 0, 0, 0, 0, 0, 0, 0, 0, 0, 0, 0, 0, 0, 0, 0, 0, 0, 0, 0 >> >>

----------------------------------------------------------------------------
(* Animation and Timer (animation.h and timer.h are not among the sources; *)
(* modelled from the data model of the specification)                      *)

\* Resources::load: the clips, [numFrames, speed in ticks, loop].
\* Animation(n, s): n frames, s seconds for the full cycle.
playerAnims ==
    << [numFrames |-> 8, speed |-> 96, loop |-> TRUE],
       [numFrames |-> 4, speed |-> 30, loop |-> TRUE],
       [numFrames |-> 1, speed |-> 60, loop |-> TRUE],
       [numFrames |-> 4, speed |-> 30, loop |-> TRUE],
       [numFrames |-> 4, speed |-> 30, loop |-> TRUE] >>

bulletAnims ==
    << [numFrames |-> 4, speed |-> 3, loop |-> TRUE],
       [numFrames |-> 4, speed |-> 9, loop |-> FALSE] >>

\* The clips of an object of the given type.
Clips(type) ==
    IF type = "player" THEN playerAnims
    ELSE IF type = "bullet" THEN bulletAnims
    ELSE << >>

\* Animation::currentFrame, for clip c at the given elapsed time.
currentFrame(c, elapsed) ==
    LET f == (elapsed * c.numFrames) \div c.speed
    IN  IF c.loop THEN f % c.numFrames
        ELSE IF f > c.numFrames - 1 THEN c.numFrames - 1 ELSE f

\* Animation::isDone: a non-looping clip has reached its last frame.
isDone(c, elapsed) ==
    ~c.loop /\ currentFrame(c, elapsed) = c.numFrames - 1

\* Animation::step on the current animation of obj (main, after update).
stepAnimation(obj, dt) ==
    IF obj.currentAnimation # -1
    THEN [obj EXCEPT !.animations[obj.currentAnimation + 1] = @ + dt]
    ELSE obj

\* PlayerData::weaponTimer: its timeout, in ticks (0.1 s).
WEAPON_TIMEOUT == 6

\* Timer::isTimeout
isTimeout(elapsed) == elapsed >= WEAPON_TIMEOUT

----------------------------------------------------------------------------
(* GameObject *)

Vec(x, y) == [x |-> x, y |-> y]
Rect(x, y, w, h) == [x |-> x, y |-> y, w |-> w, h |-> h]

\* GameObject::GameObject
GameObject ==
    [ type |-> "level", state |-> "none", weaponTimer |-> 0,
      position |-> Vec(0, 0), velocity |-> Vec(0, 0), acceleration |-> Vec(0, 0),
      direction |-> 1, maxSpeedX |-> 0,
      animations |-> << >>, currentAnimation |-> -1, texture |-> "null",
      dynamic |-> FALSE, grounded |-> FALSE,
      collider |-> Rect(0, 0, 0, 0) ]

\* createTiles: createObject(r, c, tex, type), r and c 0-based
createObject(r, c, tex, type) ==
    [ GameObject EXCEPT
        !.type = type,
        !.position = Vec(Px(c * TILE_SIZE), Px(logH - (MAP_ROWS - r) * TILE_SIZE)),
        !.texture = tex,
        !.collider = Rect(0, 0, Px(TILE_SIZE), Px(TILE_SIZE)) ]

\* createTiles: case 4, the player
createPlayer(r, c) ==
    [ createObject(r, c, "texIdle", "player") EXCEPT
        !.state = "idle",
        !.animations = << 0, 0, 0, 0, 0 >>,
        !.currentAnimation = ANIM_PLAYER_IDLE,
        !.acceleration = Vec(Vel(PLAYER_ACCELERATION), 0),
        !.maxSpeedX = Vel(PLAYER_MAX_SPEED),
        !.dynamic = TRUE,
        !.collider = Rect(Px(11), Px(6), Px(10), Px(26)) ]

\* The cells of the map in the order loadMap visits them.
Cells == [ i \in 1..(MAP_ROWS * MAP_COLS) |->
             [r |-> (i - 1) \div MAP_COLS, c |-> (i - 1) % MAP_COLS] ]

code(cell) == map[cell.r + 1][cell.c + 1]

\* The cells holding one of the wanted codes, in visiting order.
SelectCells(want) ==
    LET I == { i \in 1..Len(Cells) : code(Cells[i]) \in want }
    IN  [ k \in 1..Cardinality(I) |->
            Cells[CHOOSE i \in I : Cardinality({ j \in I : j <= i }) = k] ]

\* createTiles: loadMap(map), the two layers it fills
levelLayer ==
    LET cs == SelectCells({1, 2})
    IN  [ i \in 1..Len(cs) |->
            createObject(cs[i].r, cs[i].c,
                         IF code(cs[i]) = 1 THEN "texGround" ELSE "texPanel", "level") ]

charactersLayer ==
    LET cs == SelectCells({4})
    IN  [ i \in 1..Len(cs) |-> createPlayer(cs[i].r, cs[i].c) ]

----------------------------------------------------------------------------
(* Rectangles *)

Max(a, b) == IF a > b THEN a ELSE b
Min(a, b) == IF a < b THEN a ELSE b

\* SDL_GetRectIntersectionFloat(A, B, result): the result rectangle; w or h
\* is negative when the rectangles are apart on that axis.
Intersection(A, B) ==
    LET x == Max(A.x, B.x)
        y == Max(A.y, B.y)
    IN  Rect(x, y, Min(A.x + A.w, B.x + B.w) - x, Min(A.y + A.h, B.y + B.h) - y)

\* SDL_RectEmptyFloat
RectEmpty(R) == R.w < 0 \/ R.h < 0

\* The return value of SDL_GetRectIntersectionFloat: rectangles that only
\* touch (w = 0 or h = 0) intersect.
HasIntersection(A, B) ==
    /\ ~RectEmpty(A)
    /\ ~RectEmpty(B)
    /\ ~RectEmpty(Intersection(A, B))

\* position + collider of an object (rectA / rectB of checkCollisions)
ColliderRect(o) ==
    Rect(o.position.x + o.collider.x, o.position.y + o.collider.y,
         o.collider.w, o.collider.h)

\* the grounded sensor of update
SensorRect(o) ==
    Rect(o.position.x + o.collider.x,
         o.position.y + o.collider.y + o.collider.h,
         o.collider.w, Px(1))

----------------------------------------------------------------------------
(* collisionResponse and checkCollisions *)

\* A response with "objA.velocity *= 0" in force: both components are zeroed.
genericResponseStop(rectC, objA) ==
    IF rectC.w < rectC.h
    THEN [objA EXCEPT
            !.position.x = IF objA.velocity.x > 0 THEN @ - rectC.w
                           ELSE IF objA.velocity.x < 0 THEN @ + rectC.w
                           ELSE @,
            !.velocity = Vec(0, 0)]
    ELSE [objA EXCEPT
            !.position.y = IF objA.velocity.y > 0 THEN @ - rectC.h
                           ELSE IF objA.velocity.y < 0 THEN @ + rectC.h
                           ELSE @,
            !.velocity = Vec(0, 0)]

\* collisionResponse: the genericResponse lambda
genericResponse(rectC, objA) ==
    IF rectC.w < rectC.h
    THEN \* horizontal collision
         [objA EXCEPT
            !.position.x = IF objA.velocity.x > 0 THEN @ - rectC.w
                           ELSE IF objA.velocity.x < 0 THEN @ + rectC.w
                           ELSE @,
            !.velocity.x = 0]
    ELSE \* vertical collision
         [objA EXCEPT
            !.position.y = IF objA.velocity.y > 0 THEN @ - rectC.h
                           ELSE IF objA.velocity.y < 0 THEN @ + rectC.h
                           ELSE @,
            !.velocity.y = 0]

\* collisionResponse: objA after its response to overlapping objB
collisionResponse(rectC, objA, objB) ==
    IF objA.type = "player"
    THEN IF objB.type = "level" THEN genericResponse(rectC, objA) ELSE objA
    ELSE IF objA.type = "bullet"
    THEN IF objA.state = "moving"
         THEN [genericResponse(rectC, objA) EXCEPT
                 !.state = "colliding",
                 !.texture = "texBulletHit",
                 !.currentAnimation = ANIM_BULLET_HIT]
         ELSE objA
    ELSE objA

\* Whether collisionResponse is called for a against b.
Collides(a, b) == HasIntersection(ColliderRect(a), ColliderRect(b))

\* checkCollisions: a after the check against b
checkCollisions(a, b) ==
    IF Collides(a, b)
    THEN collisionResponse(Intersection(ColliderRect(a), ColliderRect(b)), a, b)
    ELSE a

\* update: one iteration of the collision loop for objB (the caller skips
\* obj itself): the collision check, then the grounded sensor.  acc is
\* [obj, foundGround, log]; log records every call of collisionResponse.
collisionStep(acc, objB) ==
    With(checkCollisions(acc.obj, objB), LAMBDA a2 :
      [ obj |-> a2,
        foundGround |-> \/ acc.foundGround
                        \/ /\ objB.type = "level"
                           /\ HasIntersection(SensorRect(a2), ColliderRect(objB)),
        log |-> IF Collides(acc.obj, objB)
                THEN Append(acc.log,
                            [ rectC |-> Intersection(ColliderRect(acc.obj),
                                                     ColliderRect(objB)),
                              other |-> objB.type,
                              rectB |-> ColliderRect(objB),
                              before |-> acc.obj, after |-> a2 ])
                ELSE acc.log ])

\* collisionResponse changes objA only if objA is the player or a moving bullet.
Responds(objA) ==
    objA.type = "player" \/ (objA.type = "bullet" /\ objA.state = "moving")

\* update: the loops over gs.layers, for the objects lo..hi of others (both
\* layers in visiting order); self is the index of obj in others, or 0.
\* The range is split in two halves, visited in order.
RECURSIVE collisionLoop(_, _, _, _, _)
collisionLoop(acc, others, self, lo, hi) ==
    IF lo > hi THEN acc
    ELSE IF lo = hi
    THEN IF lo = self THEN acc ELSE collisionStep(acc, others[lo])
    ELSE LET mid == (lo + hi) \div 2
             first == collisionLoop(acc, others, self, lo, mid)
         IN  IF Evaluated(first)
             THEN collisionLoop(first, others, self, mid + 1, hi)
             ELSE acc

\* The objects of others the loop can meet when obj stays within margin of
\* where it is: those whose collider meets the collider and sensor of obj
\* widened by margin on every side.  The result keeps the visiting order.
Margin == Px(TILE_SIZE)

Reach(obj) ==
    Rect(obj.position.x + obj.collider.x - Margin,
         obj.position.y + obj.collider.y - Margin,
         obj.collider.w + 2 * Margin,
         obj.collider.h + Px(1) + 2 * Margin)

near(obj, others, self) ==
    LET idx == { i \in 1..Len(others) :
                   i # self /\ HasIntersection(Reach(obj), ColliderRect(others[i])) }
        RECURSIVE inOrder(_)
        inOrder(S) == IF S = {} THEN << >>
                      ELSE LET m == CHOOSE i \in S : \A j \in S : i <= j
                           IN  << others[m] >> \o inOrder(S \ {m})
    IN  inOrder(idx)

\* Every response of the log left the object within margin of start.
withinMargin(start, log) ==
    \A k \in 1..Len(log) :
        /\ Abs(log[k].after.position.x - start.position.x) <= Margin
        /\ Abs(log[k].after.position.y - start.position.y) <= Margin

\* update: "Handle collision detection", the result [obj, foundGround, log].
\* An object that no response carried further than margin met only objects
\* of near, so the loop over near is the loop over all the objects; for any
\* other the loop runs over all of them.  For an object collisionResponse
\* never changes, what is left of the loop is the grounded sensor, at the
\* object's one position.
collisions(obj, others, self) ==
    IF Responds(obj)
    THEN With(near(obj, others, self), LAMBDA close :
         With(collisionLoop([obj |-> obj, foundGround |-> FALSE, log |-> << >>],
                            close, 0, 1, Len(close)), LAMBDA quick :
           IF withinMargin(obj, quick.log)
           THEN quick
           ELSE collisionLoop([obj |-> obj, foundGround |-> FALSE, log |-> << >>],
                              others, self, 1, Len(others))))
    ELSE [ obj |-> obj,
           foundGround |->
               \E i \in 1..Len(others) :
                   /\ i # self
                   /\ others[i].type = "level"
                   /\ HasIntersection(SensorRect(obj), ColliderRect(others[i])),
           log |-> << >> ]

----------------------------------------------------------------------------
(* The bullet pool *)

\* A bullet built without its type: it keeps the type of GameObject().
newBulletUntyped(obj, r) ==
    [ GameObject EXCEPT
        !.state = "moving",
        !.direction = obj.direction,
        !.texture = "texBullet",
        !.currentAnimation = ANIM_BULLET_MOVING,
        !.collider = Rect(0, 0, Px(BulletTexH), Px(BulletTexH)),
        !.velocity = Vec(obj.velocity.x + Vel(BULLET_SPEED) * obj.direction,
                         Vel(r) - Vel(yVariation) \div 2),
        !.maxSpeedX = Vel(BULLET_MAX_SPEED),
        !.animations = << 0, 0 >>,
        !.position = Vec(obj.position.x + Px(left)
                           + (Px(right) * (obj.direction + 1)) \div 2,
                         obj.position.y + Px(TILE_SIZE \div 2 + 1)) ]

\* A bullet built with the moving clip only.
newBulletOneClip(obj, r) ==
    [ GameObject EXCEPT
        !.type = "bullet",
        !.state = "moving",
        !.direction = obj.direction,
        !.texture = "texBullet",
        !.currentAnimation = ANIM_BULLET_MOVING,
        !.collider = Rect(0, 0, Px(BulletTexH), Px(BulletTexH)),
        !.velocity = Vec(obj.velocity.x + Vel(BULLET_SPEED) * obj.direction,
                         Vel(r) - Vel(yVariation) \div 2),
        !.maxSpeedX = Vel(BULLET_MAX_SPEED),
        !.animations = << 0 >>,
        !.position = Vec(obj.position.x + Px(left)
                           + (Px(right) * (obj.direction + 1)) \div 2,
                         obj.position.y + Px(TILE_SIZE \div 2 + 1)) ]

\* The bullet handleShooting builds; r is the value of SDL_rand(yVariation).
newBullet(obj, r) ==
    [ GameObject EXCEPT
        !.type = "bullet",
        !.state = "moving",
        !.direction = obj.direction,
        !.texture = "texBullet",
        !.currentAnimation = ANIM_BULLET_MOVING,
        !.collider = Rect(0, 0, Px(BulletTexH), Px(BulletTexH)),
        !.velocity = Vec(obj.velocity.x + Vel(BULLET_SPEED) * obj.direction,
                         Vel(r) - Vel(yVariation) \div 2),
        !.maxSpeedX = Vel(BULLET_MAX_SPEED),
        !.animations = << 0, 0 >>,
        !.position = Vec(obj.position.x + Px(left)
                           + (Px(right) * (obj.direction + 1)) \div 2,
                         obj.position.y + Px(TILE_SIZE \div 2 + 1)) ]

\* The index of the first inactive bullet at or after i, 0 if there is none.
RECURSIVE firstInactive(_, _)
firstInactive(pool, i) ==
    IF i > Len(pool) THEN 0
    ELSE IF pool[i].state = "inactive" THEN i
    ELSE firstInactive(pool, i + 1)

\* A spawn that never looks for an inactive slot.
storeBulletAppend(pool, bullet) == Append(pool, bullet)

\* A store that leaves the animation clocks of the slot it takes again.
storeBulletKeepClocks(pool, bullet) ==
    LET i == firstInactive(pool, 1)
    IN  IF i # 0
        THEN [pool EXCEPT ![i] = [bullet EXCEPT !.animations = pool[i].animations]]
        ELSE Append(pool, bullet)

\* handleShooting: look for an inactive slot and overwrite it, or push
storeBullet(pool, bullet) ==
    LET i == firstInactive(pool, 1)
    IN  IF i # 0 THEN [pool EXCEPT ![i] = bullet] ELSE Append(pool, bullet)

\* A handleShooting that does not look at the weapon timer.
handleShootingNoCooldown(st, held, r, tex, shootTex, animIndex, shootAnimIndex) ==
    IF "J" \in held
    THEN [ obj |-> [st.obj EXCEPT !.texture = shootTex,
                                  !.currentAnimation = shootAnimIndex,
                                  !.weaponTimer = 0],
           bullets |-> storeBullet(st.bullets, newBullet(st.obj, r)),
           spawned |-> TRUE ]
    ELSE [st EXCEPT !.obj = [st.obj EXCEPT !.texture = tex,
                                           !.currentAnimation = animIndex]]

\* A handleShooting whose spawn pushes the player back.
handleShootingRecoil(st, held, r, tex, shootTex, animIndex, shootAnimIndex) ==
    LET obj == st.obj
    IN  IF "J" \in held
        THEN LET shooting == [obj EXCEPT !.texture = shootTex,
                                         !.currentAnimation = shootAnimIndex]
             IN  IF isTimeout(obj.weaponTimer)
                 THEN [ obj |-> [shooting EXCEPT
                                   !.weaponTimer = 0,
                                   !.velocity.x = @ - Vel(10) * obj.direction],
                        bullets |-> storeBullet(st.bullets, newBullet(obj, r)),
                        spawned |-> TRUE ]
                 ELSE [st EXCEPT !.obj = shooting]
        ELSE [st EXCEPT !.obj = [obj EXCEPT !.texture = tex,
                                            !.currentAnimation = animIndex]]

\* update: the handleShooting lambda.  st is [obj, bullets, spawned].
handleShooting(st, held, r, tex, shootTex, animIndex, shootAnimIndex) ==
    LET obj == st.obj
    IN  IF "J" \in held
        THEN LET shooting == [obj EXCEPT !.texture = shootTex,
                                         !.currentAnimation = shootAnimIndex]
             IN  IF isTimeout(obj.weaponTimer)
                 THEN [ obj |-> [shooting EXCEPT !.weaponTimer = 0],
                        bullets |-> storeBullet(st.bullets, newBullet(obj, r)),
                        spawned |-> TRUE ]
                 ELSE [st EXCEPT !.obj = shooting]
        ELSE [st EXCEPT !.obj = [obj EXCEPT !.texture = tex,
                                            !.currentAnimation = animIndex]]

----------------------------------------------------------------------------
(* update *)

\* Gravity that does not look at the grounded flag.
applyGravityAlways(obj, dt) ==
    IF obj.dynamic
    THEN [obj EXCEPT !.velocity.y = @ + (Vel(GRAVITY) * dt) \div TICKS]
    ELSE obj

\* Gravity that does not look at the dynamic flag.
applyGravityStatic(obj, dt) ==
    IF ~obj.grounded
    THEN [obj EXCEPT !.velocity.y = @ + (Vel(GRAVITY) * dt) \div TICKS]
    ELSE obj

\* update: apply some gravity
applyGravity(obj, dt) ==
    IF obj.dynamic /\ ~obj.grounded
    THEN [obj EXCEPT !.velocity.y = @ + (Vel(GRAVITY) * dt) \div TICKS]
    ELSE obj

\* A direction that starts from the way the object faces instead of 0.
currentDirectionFacing(obj, held) ==
    IF obj.type = "player"
    THEN IF "A" \in held /\ "D" \notin held THEN -1
         ELSE IF "D" \in held /\ "A" \notin held THEN 1
         ELSE IF "A" \in held THEN 0
         ELSE obj.direction
    ELSE 0

\* update: currentDirection, from the keys held
currentDirection(obj, held) ==
    IF obj.type = "player"
    THEN (IF "A" \in held THEN -1 ELSE 0) + (IF "D" \in held THEN 1 ELSE 0)
    ELSE 0

\* A deceleration that never snaps to 0.
decelerateNoSnap(obj, dt) ==
    IF obj.velocity.x # 0
    THEN [obj EXCEPT !.velocity.x =
             @ + ((IF obj.velocity.x > 0 THEN -3 ELSE 3)
                    * obj.acceleration.x * dt) \div (2 * TICKS)]
    ELSE obj

\* update, PlayerState::idle without input: decelerate
decelerate(obj, dt) ==
    IF obj.velocity.x # 0
    THEN LET amount == ((IF obj.velocity.x > 0 THEN -3 ELSE 3)
                          * obj.acceleration.x * dt) \div (2 * TICKS)
         IN  IF Abs(obj.velocity.x) < Abs(amount)
             THEN [obj EXCEPT !.velocity.x = 0]
             ELSE [obj EXCEPT !.velocity.x = @ + amount]
    ELSE obj

\* update: the switch on obj.data.player.state.  st is [obj, bullets, spawned].
\* Each case changes the object, then calls handleShooting with the textures
\* and animations of the case: look is <<tex, shootTex, animIndex,
\* shootAnimIndex>>.
playerStateStep(st, held, dt, r) ==
    With(currentDirection(st.obj, held), LAMBDA dir :
    With(CASE st.obj.state = "idle" ->
                IF dir # 0 THEN [st.obj EXCEPT !.state = "running"]
                ELSE decelerate(st.obj, dt)
           [] st.obj.state = "running" ->
                IF dir = 0 THEN [st.obj EXCEPT !.state = "idle"] ELSE st.obj
           [] OTHER -> st.obj, LAMBDA o1 :
    With(CASE st.obj.state = "idle" ->
                << "texIdle", "texShoot", ANIM_PLAYER_IDLE, ANIM_PLAYER_SHOOT >>
           [] st.obj.state = "running"
              /\ o1.velocity.x * o1.direction < 0 /\ o1.grounded ->
                << "texSlide", "texSlideShoot",
                   ANIM_PLAYER_SLIDE_SHOOT, ANIM_PLAYER_SLIDE_SHOOT >>
           [] OTHER ->
                << "texRun", "texRunShoot", ANIM_PLAYER_RUN, ANIM_PLAYER_RUN >>,
         LAMBDA look :
      IF st.obj.state \in {"idle", "running", "jumping"}
      THEN handleShooting([st EXCEPT !.obj = o1], held, r,
                          look[1], look[2], look[3], look[4])
      ELSE st)))

\* update, BulletState::moving: the bullet is outside the viewport
offScreen(obj, viewport) ==
    \/ obj.position.x - viewport.x < 0
    \/ obj.position.x - viewport.x > Px(logW)
    \/ obj.position.y - viewport.y < 0
    \/ obj.position.y - viewport.y > Px(logH)

\* A bullet switch that lets a moving bullet fly on outside the viewport.
bulletStateStepFlyOn(obj, viewport) ==
    CASE obj.state = "colliding" ->
           IF isDone(bulletAnims[obj.currentAnimation + 1],
                     obj.animations[obj.currentAnimation + 1])
           THEN [obj EXCEPT !.state = "inactive"]
           ELSE obj
      [] OTHER -> obj

\* A bullet switch that does not wait for the impact animation.
bulletStateStepNoWait(obj, viewport) ==
    CASE obj.state = "moving" ->
           IF offScreen(obj, viewport) THEN [obj EXCEPT !.state = "inactive"] ELSE obj
      [] obj.state = "colliding" -> [obj EXCEPT !.state = "inactive"]
      [] OTHER -> obj

\* A bullet switch that sends a finished impact back to moving.
bulletStateStepRevive(obj, viewport) ==
    CASE obj.state = "moving" ->
           IF offScreen(obj, viewport) THEN [obj EXCEPT !.state = "inactive"] ELSE obj
      [] obj.state = "colliding" ->
           IF isDone(bulletAnims[obj.currentAnimation + 1],
                     obj.animations[obj.currentAnimation + 1])
           THEN [obj EXCEPT !.state = "moving"]
           ELSE obj
      [] OTHER -> obj

\* update: the switch on obj.data.bullet.state
bulletStateStep(obj, viewport) ==
    CASE obj.state = "moving" ->
           IF offScreen(obj, viewport) THEN [obj EXCEPT !.state = "inactive"] ELSE obj
      [] obj.state = "colliding" ->
           IF isDone(bulletAnims[obj.currentAnimation + 1],
                     obj.animations[obj.currentAnimation + 1])
           THEN [obj EXCEPT !.state = "inactive"]
           ELSE obj
      [] OTHER -> obj

\* A turn that takes the input direction even when there is none.
turnAlways(obj, dir) == [obj EXCEPT !.direction = dir]

\* update: the new direction
turn(obj, dir) == IF dir # 0 THEN [obj EXCEPT !.direction = dir] ELSE obj

\* update: add acceleration to velocity
accelerate(obj, dir, dt) ==
    [obj EXCEPT !.velocity.x = @ + (dir * obj.acceleration.x * dt) \div TICKS,
                !.velocity.y = @ + (dir * obj.acceleration.y * dt) \div TICKS]

\* A clamp that stops the object.
clampSpeedStop(obj, dir) ==
    IF Abs(obj.velocity.x) > obj.maxSpeedX
    THEN [obj EXCEPT !.velocity.x = 0]
    ELSE obj

\* A clamp that tests the vertical component.
clampSpeedOnY(obj, dir) ==
    IF Abs(obj.velocity.y) > obj.maxSpeedX
    THEN [obj EXCEPT !.velocity.x = dir * obj.maxSpeedX]
    ELSE obj

\* A clamp that forgets the direction.
clampSpeedUnsigned(obj, dir) ==
    IF Abs(obj.velocity.x) > obj.maxSpeedX
    THEN [obj EXCEPT !.velocity.x = obj.maxSpeedX]
    ELSE obj

\* update: the clamp of velocity.x against maxSpeedX
clampSpeed(obj, dir) ==
    IF Abs(obj.velocity.x) > obj.maxSpeedX
    THEN [obj EXCEPT !.velocity.x = dir * obj.maxSpeedX]
    ELSE obj

\* update: add velocity to position
move(obj, dt) ==
    [obj EXCEPT !.position.x = @ + obj.velocity.x * dt,
                !.position.y = @ + obj.velocity.y * dt]

\* A grounded switch without the reset of the player's state.
switchGroundedNoReset(obj, foundGround) ==
    IF obj.grounded # foundGround
    THEN [obj EXCEPT !.grounded = foundGround]
    ELSE obj

\* update: switching grounded state
switchGrounded(obj, foundGround) ==
    IF obj.grounded # foundGround
    THEN IF foundGround /\ obj.type = "player"
         THEN [obj EXCEPT !.grounded = foundGround, !.state = "idle"]
         ELSE [obj EXCEPT !.grounded = foundGround]
    ELSE obj

\* update(state, gs, res, obj, deltaTime).  others is the objects of both
\* layers in visiting order, self the index of obj among them (0 for a
\* bullet), pool is gs.bullets, r the value SDL_rand would return.
\* The result is [obj, bullets, probe]; probe records the intermediate values.
update(obj, others, self, pool, held, viewport, dt, r) ==
    With(applyGravity(obj, dt), LAMBDA o1 :
    With(currentDirection(obj, held), LAMBDA dir :
    With(IF obj.type = "player"
         THEN playerStateStep(
                  [ obj |-> [o1 EXCEPT !.weaponTimer = @ + dt],
                    bullets |-> pool, spawned |-> FALSE ],
                  held, dt, r)
         ELSE IF obj.type = "bullet"
         THEN [ obj |-> bulletStateStep(o1, viewport),
                bullets |-> pool, spawned |-> FALSE ]
         ELSE [ obj |-> o1, bullets |-> pool, spawned |-> FALSE ], LAMBDA st :
    With(accelerate(turn(st.obj, dir), dir, dt), LAMBDA o3 :
    With(clampSpeed(o3, dir), LAMBDA o4 :
    With(move(o4, dt), LAMBDA o5 :
    With(collisions(o5, others, self), LAMBDA acc :
    With(switchGrounded(acc.obj, acc.foundGround), LAMBDA o6 :
      [ obj |-> o6,
        bullets |-> st.bullets,
        probe |-> [ valid |-> TRUE, dt |-> dt, held |-> held,
                    start |-> obj, gravity |-> o1, fsm |-> st.obj,
                    accelerated |-> o3, clamped |-> o4, moved |-> o5,
                    log |-> acc.log, collided |-> acc.obj,
                    foundGround |-> acc.foundGround,
                    spawned |-> st.spawned, poolBefore |-> pool,
                    final |-> o6 ] ]))))))))

----------------------------------------------------------------------------
(* handleKeyInput *)

\* A key handler without the switch on the player's state.
handleKeyInputAnyState(obj, key, keyDown) ==
    IF obj.type = "player" /\ key = "K" /\ keyDown
    THEN [obj EXCEPT !.state = "jumping", !.velocity.y = @ + Vel(JUMP_FORCE)]
    ELSE obj

\* A key handler that assigns the jump velocity instead of adding it.
handleKeyInputSet(obj, key, keyDown) ==
    IF obj.type = "player" /\ obj.state \in {"idle", "running"}
       /\ key = "K" /\ keyDown
    THEN [obj EXCEPT !.state = "jumping", !.velocity.y = Vel(JUMP_FORCE)]
    ELSE obj

\* handleKeyInput(state, gs, obj, key, keyDown)
handleKeyInput(obj, key, keyDown) ==
    IF obj.type = "player" /\ obj.state \in {"idle", "running"}
       /\ key = "K" /\ keyDown
    THEN [obj EXCEPT !.state = "jumping", !.velocity.y = @ + Vel(JUMP_FORCE)]
    ELSE obj

----------------------------------------------------------------------------
(* main *)

\* GameState::player()
player == layers[LAYER_IDX_CHARACTERS + 1][playerIndex + 1]

\* A loop body that steps the animation before the update.
updateObjectStepFirst(gs, li, i, held, viewport, dt, r) ==
    With(update(stepAnimation(gs.layers[li][i], dt),
                gs.layers[LAYER_IDX_LEVEL + 1] \o gs.layers[LAYER_IDX_CHARACTERS + 1],
                IF li = LAYER_IDX_LEVEL + 1 THEN i
                ELSE Len(gs.layers[LAYER_IDX_LEVEL + 1]) + i,
                gs.bullets, held, viewport, dt, r), LAMBDA res :
      [ layers |-> [gs.layers EXCEPT ![li][i] = res.obj],
        bullets |-> res.bullets,
        probe |-> IF res.obj.type = "player" THEN res.probe ELSE gs.probe ])

\* main: the body of "for (GameObject &obj : layer)" for object i of layer li
\* (1-based) of gs = [layers, bullets, probe]: update, then step the
\* animation.
updateObject(gs, li, i, held, viewport, dt, r) ==
    With(update(gs.layers[li][i],
                gs.layers[LAYER_IDX_LEVEL + 1] \o gs.layers[LAYER_IDX_CHARACTERS + 1],
                IF li = LAYER_IDX_LEVEL + 1 THEN i
                ELSE Len(gs.layers[LAYER_IDX_LEVEL + 1]) + i,
                gs.bullets, held, viewport, dt, r), LAMBDA res :
      [ layers |-> [gs.layers EXCEPT ![li][i] = stepAnimation(res.obj, dt)],
        bullets |-> res.bullets,
        probe |-> IF res.obj.type = "player" THEN res.probe ELSE gs.probe ])

\* main: "for (GameObject &obj : layer)" for the objects lo..hi of layer li.
\* The range is split in two halves, visited in order.
RECURSIVE updateLayer(_, _, _, _, _, _, _, _)
updateLayer(gs, li, lo, hi, held, viewport, dt, r) ==
    IF lo > hi THEN gs
    ELSE IF lo = hi THEN updateObject(gs, li, lo, held, viewport, dt, r)
    ELSE LET mid == (lo + hi) \div 2
             first == updateLayer(gs, li, lo, mid, held, viewport, dt, r)
         IN  IF Evaluated(first)
             THEN updateLayer(first, li, mid + 1, hi, held, viewport, dt, r)
             ELSE gs

\* The level layer of createTiles after one pass of the update loop, and
\* after two.  For an object of type level update reads no key, no timer
\* and no bullet, and of the other objects only those of type level; the
\* objects of levelLayer have no velocity and no acceleration, so the pass
\* does not depend on deltaTime either.  The two values are computed once.
levelLayerUpdated ==
    updateLayer([ layers |-> << levelLayer, charactersLayer >>, bullets |-> << >>,
                  probe |-> [valid |-> FALSE] ],
                LAYER_IDX_LEVEL + 1, 1, Len(levelLayer),
                {}, Rect(0, 0, 0, 0), 0, 0).layers[LAYER_IDX_LEVEL + 1]

levelLayerSettled ==
    With(levelLayerUpdated, LAMBDA lv :
      updateLayer([ layers |-> << lv, charactersLayer >>, bullets |-> << >>,
                    probe |-> [valid |-> FALSE] ],
                  LAYER_IDX_LEVEL + 1, 1, Len(lv),
                  {}, Rect(0, 0, 0, 0), 0, 0).layers[LAYER_IDX_LEVEL + 1])

\* main: "for (auto &layer : gs.layers) for (GameObject &obj : layer)":
\* the level layer, then the characters layer.
updateLayers(gs, held, viewport, dt, r) ==
    With(levelLayerUpdated, LAMBDA once :
    With(IF gs.layers[LAYER_IDX_LEVEL + 1] = levelLayer
         THEN [gs EXCEPT !.layers[LAYER_IDX_LEVEL + 1] = once]
         ELSE IF gs.layers[LAYER_IDX_LEVEL + 1] = once
         THEN [gs EXCEPT !.layers[LAYER_IDX_LEVEL + 1] = levelLayerSettled]
         ELSE updateLayer(gs, LAYER_IDX_LEVEL + 1, 1,
                          Len(gs.layers[LAYER_IDX_LEVEL + 1]),
                          held, viewport, dt, r), LAMBDA g1 :
      updateLayer(g1, LAYER_IDX_CHARACTERS + 1, 1,
                  Len(g1.layers[LAYER_IDX_CHARACTERS + 1]), held, viewport, dt, r)))

\* main: "for (GameObject &bullet : gs.bullets)" from bullet i on: update,
\* then step the animation.  acc is [pool, probes]; probes collects the
\* probe of each bullet's update.
RECURSIVE updateBullets(_, _, _, _, _, _)
updateBullets(acc, i, lay, held, viewport, dt) ==
    IF i > Len(acc.pool) THEN acc
    ELSE With(update(acc.pool[i],
                     lay[LAYER_IDX_LEVEL + 1] \o lay[LAYER_IDX_CHARACTERS + 1],
                     0, acc.pool, held, viewport, dt, 0), LAMBDA res :
         With([ pool |-> [acc.pool EXCEPT ![i] = stepAnimation(res.obj, dt)],
                probes |-> Append(acc.probes, res.probe) ], LAMBDA next :
           IF Evaluated(next)
           THEN updateBullets(next, i + 1, lay, held, viewport, dt)
           ELSE acc))

----------------------------------------------------------------------------
(* drawParalaxBackground *)

\* A scroll position is kept in 1/SS of a position unit, a scroll factor in
\* 1/SS: 0.075 is 3, 0.15 is 6, 0.3 is 12.
SS == 40

\* Width of data/bg/bg_layer2.png, bg_layer3.png and bg_layer4.png in pixels
\* (texture->w).  The images are not part of the sources; the destination
\* rectangle, two textures wide, covers the logical screen from every offset
\* in (-w, 0] when w is the width of the screen.
BgTexW == 640

\* drawParalaxBackground: the new value of scrollPos
drawParalaxBackground(texW, xVelocity, scrollPos, scrollFactor, dt) ==
    With(scrollPos - xVelocity * scrollFactor * dt, LAMBDA moved :
      IF moved <= -(Px(texW) * SS) THEN 0 ELSE moved)

----------------------------------------------------------------------------
(* The state machine *)

\* main before the loop: GameState(state) and createTiles
Init ==
    /\ keys = {}
    /\ layers = << levelLayer, charactersLayer >>
    /\ bullets = << >>
    /\ playerIndex = Len(charactersLayer) - 1
    /\ mapViewport = Rect(0, 0, Px(logW), Px(logW))
    /\ deltaTime = 0
    /\ pc = "poll"
    /\ frames = 0
    /\ bg2Scroll = 0
    /\ bg3Scroll = 0
    /\ bg4Scroll = 0
    /\ impulses = 0
    /\ probe = [valid |-> FALSE]
    /\ bulletProbes = << >>

\* main, SDL_EVENT_KEY_DOWN: the keyboard state, then handleKeyInput.
\* The code reads the keyboard state of A, D and J only.
KeyDown(key) ==
    /\ pc = "poll"
    /\ keys' = IF key = "K" THEN keys ELSE keys \cup {key}
    /\ layers' = [layers EXCEPT ![LAYER_IDX_CHARACTERS + 1][playerIndex + 1] =
                                    handleKeyInput(@, key, TRUE)]
    /\ impulses' = IF handleKeyInput(player, key, TRUE).velocity.y # player.velocity.y
                   THEN impulses + 1
                   ELSE impulses
    /\ UNCHANGED <<bullets, playerIndex, mapViewport, deltaTime, pc, frames,
                   probe, bulletProbes,
                   bg2Scroll, bg3Scroll, bg4Scroll>>

\* main, SDL_EVENT_KEY_UP
KeyUp(key) ==
    /\ pc = "poll"
    /\ key = "K" \/ key \in keys
    /\ keys' = keys \ {key}
    /\ layers' = [layers EXCEPT ![LAYER_IDX_CHARACTERS + 1][playerIndex + 1] =
                                    handleKeyInput(@, key, FALSE)]
    /\ impulses' = IF handleKeyInput(player, key, FALSE).velocity.y # player.velocity.y
                   THEN impulses + 1
                   ELSE impulses
    /\ UNCHANGED <<bullets, playerIndex, mapViewport, deltaTime, pc, frames,
                   probe, bulletProbes,
                   bg2Scroll, bg3Scroll, bg4Scroll>>

\* handleShooting builds a bullet, and calls SDL_rand, in the player's next
\* update with this deltaTime.
WillShoot(dt) == "J" \in keys /\ isTimeout(player.weaponTimer + dt)

\* main: the frame's deltaTime, then "Update all objects"
UpdateLayers(dt, r) ==
    /\ pc = "poll"
    /\ \E gs \in { updateLayers([layers |-> layers, bullets |-> bullets,
                                  probe |-> probe], keys, mapViewport, dt, r) } :
           /\ layers' = gs.layers
           /\ bullets' = gs.bullets
           /\ probe' = gs.probe
           /\ impulses' =
                 IF /\ ~player.grounded
                    /\ gs.layers[LAYER_IDX_CHARACTERS + 1][playerIndex + 1].grounded
                 THEN 0
                 ELSE impulses
    /\ deltaTime' = dt
    /\ frames' = frames + 1
    /\ pc' = "bullets"
    /\ UNCHANGED <<keys, playerIndex, mapViewport, bulletProbes,
                   bg2Scroll, bg3Scroll, bg4Scroll>>

\* main: "Update bullets"
UpdateBullets ==
    /\ pc = "bullets"
    /\ \E res \in { updateBullets([pool |-> bullets, probes |-> << >>], 1,
                                    layers, keys, mapViewport, deltaTime) } :
           /\ bullets' = res.pool
           /\ bulletProbes' = res.probes
    /\ pc' = "present"
    /\ UNCHANGED <<keys, layers, playerIndex, mapViewport, deltaTime, frames, probe,
                   bg2Scroll, bg3Scroll, bg4Scroll, impulses>>

\* main: "Calculate viewport position", then the drawing commands: of these
\* only the three calls of drawParalaxBackground change the state, with the
\* factors 0.075, 0.15 and 0.3.
Present ==
    /\ pc = "present"
    /\ mapViewport' = [mapViewport EXCEPT
                         !.x = (player.position.x + Px(TILE_SIZE \div 2))
                               - mapViewport.w \div 2]
    /\ bg4Scroll' = drawParalaxBackground(BgTexW, player.velocity.x, bg4Scroll,
                                          3, deltaTime)
    /\ bg3Scroll' = drawParalaxBackground(BgTexW, player.velocity.x, bg3Scroll,
                                          6, deltaTime)
    /\ bg2Scroll' = drawParalaxBackground(BgTexW, player.velocity.x, bg2Scroll,
                                          12, deltaTime)
    /\ pc' = "poll"
    /\ UNCHANGED <<keys, layers, bullets, playerIndex, deltaTime, frames,
                   impulses, probe, bulletProbes>>

\* One frame's update of the layers: at most limit frames, deltaTime drawn
\* from dts (ticks), and the value of SDL_rand(yVariation) from rands.
Frame(limit, dts, rands) ==
    /\ frames < limit
    /\ \E dt \in dts :
          \E r \in (IF WillShoot(dt) THEN rands ELSE {0}) : UpdateLayers(dt, r)

----------------------------------------------------------------------------
(* Specifications *)

\* All four keys, a few frames of 1/20 s.
MaxFrames == 3
DTs == {3}
Rands == {0, 39}
Keys == {"A", "D", "J", "K"}

Next ==
    \/ \E key \in Keys : KeyDown(key)
    \/ \E key \in Keys : KeyUp(key)
    \/ Frame(MaxFrames, DTs, Rands)
    \/ UpdateBullets
    \/ Present

Spec == Init /\ [][Next]_vars

\* Shooting: the fire key goes down and up, frames of 1/10 s, long enough
\* for a bullet to hit a tile, finish its animation and have its slot taken
\* again.
ShootFrames == 10
\* deltaTime of a frame of 1/10 s, in ticks
ShootDTs == {6}
ShootRands == {39}

ShootNext ==
    \/ KeyDown("J")
    \/ KeyUp("J")
    \/ Frame(ShootFrames, ShootDTs, ShootRands)
    \/ UpdateBullets
    \/ Present

ShootSpec == Init /\ [][ShootNext]_vars

\* Hitting: the fire key and the D key go down and stay down, so that the
\* bullets leave a moving player and meet the tiles at other offsets.
HitFrames == 10

HitNext ==
    \/ KeyDown("J")
    \/ KeyDown("D")
    \/ Frame(HitFrames, ShootDTs, ShootRands)
    \/ UpdateBullets
    \/ Present

HitSpec == Init /\ [][HitNext]_vars

\* Running: the A key goes down at some frame and stays down, frames of
\* 1/60 s for a little more than one second.
RunFrames == 62
RunDTs == {1}

RunNext ==
    \/ KeyDown("A")
    \/ Frame(RunFrames, RunDTs, {0})
    \/ UpdateBullets
    \/ Present

RunSpec == Init /\ [][RunNext]_vars

\* Jumping: the D and K keys, frames of 1/10 s.
JumpFrames == 6
JumpKeys == {"D", "K"}

JumpNext ==
    \/ \E key \in JumpKeys : KeyDown(key)
    \/ \E key \in JumpKeys : KeyUp(key)
    \/ Frame(JumpFrames, ShootDTs, {0})
    \/ UpdateBullets
    \/ Present

JumpSpec == Init /\ [][JumpNext]_vars

\* Stalling: the same keys, and frames of 1/10 s or, when the loop was held
\* up, of 1 s.
StallFrames == 4
StallDTs == {6, 60}

StallNext ==
    \/ \E key \in JumpKeys : KeyDown(key)
    \/ \E key \in JumpKeys : KeyUp(key)
    \/ Frame(StallFrames, StallDTs, {0})
    \/ UpdateBullets
    \/ Present

StallSpec == Init /\ [][StallNext]_vars

\* Cooldown: the fire key goes down and up, the D and K keys go down, frames
\* of 1/20 s: the weapon timer times out every second frame.
CooldownFrames == 5
CooldownKeys == {"J", "D", "K"}

CooldownNext ==
    \/ \E key \in CooldownKeys : KeyDown(key)
    \/ KeyUp("J")
    \/ Frame(CooldownFrames, DTs, ShootRands)
    \/ UpdateBullets
    \/ Present

CooldownSpec == Init /\ [][CooldownNext]_vars

\* Falling: the fire key goes down and up, frames of 1/2 s: the player falls
\* through the level and fires under it.
FallFrames == 8
\* deltaTime of a frame of 1/2 s, in ticks
FallDTs == {30}

FallNext ==
    \/ KeyDown("J")
    \/ KeyUp("J")
    \/ Frame(FallFrames, FallDTs, ShootRands)
    \/ UpdateBullets
    \/ Present

FallSpec == Init /\ [][FallNext]_vars

\* Impact: the fire key goes down and stays down, frames of 1/30 s, long
\* enough for a bullet to reach a tile and finish its impact.
ImpactFrames == 26
\* deltaTime of a frame of 1/30 s, in ticks
ImpactDTs == {2}

ImpactNext ==
    \/ KeyDown("J")
    \/ Frame(ImpactFrames, ImpactDTs, ShootRands)
    \/ UpdateBullets
    \/ Present

ImpactSpec == Init /\ [][ImpactNext]_vars

\* Decelerating: the A and D keys go down and up, frames of 1/10 s: the
\* player gathers speed either way, then idles with no key or with both.
DecelFrames == 6
DecelKeys == {"A", "D"}

DecelNext ==
    \/ \E key \in DecelKeys : KeyDown(key)
    \/ \E key \in DecelKeys : KeyUp(key)
    \/ Frame(DecelFrames, ShootDTs, {0})
    \/ UpdateBullets
    \/ Present

DecelSpec == Init /\ [][DecelNext]_vars

\* Scrolling: the A and D keys go down, frames of 1 s (the loop was held up
\* each time), long enough for the nearest background layer to scroll by
\* more than its width.
ScrollFrames == 24
\* deltaTime of a frame of 1 s, in ticks
ScrollDTs == {60}

ScrollNext ==
    \/ \E key \in DecelKeys : KeyDown(key)
    \/ Frame(ScrollFrames, ScrollDTs, {0})
    \/ UpdateBullets
    \/ Present

ScrollSpec == Init /\ [][ScrollNext]_vars

\* Landing: the D and K keys go down and up, frames of 1/10 s: a jump from
\* the ground ends on it within the frames.
LandFrames == 10

LandNext ==
    \/ \E key \in JumpKeys : KeyDown(key)
    \/ \E key \in JumpKeys : KeyUp(key)
    \/ Frame(LandFrames, ShootDTs, {0})
    \/ UpdateBullets
    \/ Present

LandSpec == Init /\ [][LandNext]_vars

\* Reversing: the D key goes down and up and the A key goes down, frames of
\* 1/10 s: the player gathers speed to the right, then reaches the maximum
\* speed to the left.
ReverseFrames == 8

ReverseNext ==
    \/ KeyDown("D")
    \/ KeyUp("D")
    \/ KeyDown("A")
    \/ Frame(ReverseFrames, ShootDTs, {0})
    \/ UpdateBullets
    \/ Present

ReverseSpec == Init /\ [][ReverseNext]_vars

\* Reclaiming: the fire key and the D key go down and stay down, frames of
\* 1/10 s that keep coming up to the last: bullets are fired from a
\* standing, a running and a falling player for two seconds.
ReclaimFrames == 20

ReclaimNext ==
    \/ KeyDown("J")
    \/ KeyDown("D")
    \/ Frame(ReclaimFrames, ShootDTs, ShootRands)
    \/ UpdateBullets
    \/ Present

\* The loop of main keeps running: a frame that can start does, and goes on
\* to its end.  Each step of the loop stays enabled until it is taken and
\* taking it changes pc, so weak fairness of the step is that the loop is
\* infinitely often somewhere else; the first two conjuncts say so directly.
ReclaimSpec ==
    /\ Init
    /\ [][ReclaimNext]_vars
    /\ []<>(~(pc = "poll" /\ frames < ReclaimFrames))
    /\ []<>(pc # "bullets")
    /\ WF_vars(Present)

----------------------------------------------------------------------------
(* Startup *)

\* main before initialize: no window, no resources, no game data; pc is
\* "main".  Afterwards pc is "initialized" (initialize returned true),
\* "returned1" (main returned 1) or "crashed" (the process was killed).
StartInit ==
    /\ keys = {}
    /\ layers = << << >>, << >> >>
    /\ bullets = << >>
    /\ playerIndex = -1
    /\ mapViewport = Rect(0, 0, 0, 0)
    /\ deltaTime = 0
    /\ pc = "main"
    /\ frames = 0
    /\ bg2Scroll = 0
    /\ bg3Scroll = 0
    /\ bg4Scroll = 0
    /\ impulses = 0
    /\ probe = [valid |-> FALSE]
    /\ bulletProbes = << >>

\* initialize: its return value, from the results of SDL_Init,
\* SDL_CreateWindow and SDL_CreateRenderer.  No failure returns early.
initialize(sdlInit, window, renderer) ==
    With(IF ~sdlInit THEN FALSE ELSE TRUE, LAMBDA afterInit :
    With(IF ~window THEN FALSE ELSE afterInit, LAMBDA afterWindow :
      IF ~renderer THEN FALSE ELSE afterWindow))

\* What a call of cleanup can do: when the window could not be created,
\* cleanup passes state.renderer to SDL_DestroyRenderer before anything was
\* assigned to it (SDLState's constructor sets keys only): the call reads an
\* indeterminate pointer, and either returns or ends the process.
cleanupOutcomes(window) ==
    IF ~window THEN {"returns", "crashes"} ELSE {"returns"}

\* main: "if (!initialize(state)) return 1;".  SDL_CreateRenderer cannot
\* succeed without a window.
Initialize(sdlInit, window, renderer) ==
    /\ pc = "main"
    /\ renderer => window
    /\ \E outcome \in cleanupOutcomes(window) :
          pc' = IF outcome = "crashes" THEN "crashed"
                ELSE IF initialize(sdlInit, window, renderer) THEN "initialized"
                ELSE "returned1"
    /\ UNCHANGED <<keys, layers, bullets, playerIndex, mapViewport, deltaTime,
                   frames, probe, bulletProbes,
                   bg2Scroll, bg3Scroll, bg4Scroll, impulses>>

\* main: res.load, GameState gs(state) and createTiles
Setup ==
    /\ pc = "initialized"
    /\ layers' = << levelLayer, charactersLayer >>
    /\ playerIndex' = Len(charactersLayer) - 1
    /\ mapViewport' = Rect(0, 0, Px(logW), Px(logW))
    /\ pc' = "poll"
    /\ UNCHANGED <<keys, bullets, deltaTime, frames, probe, bulletProbes,
                   bg2Scroll, bg3Scroll, bg4Scroll, impulses>>

\* Starting: the three calls of initialize succeed or fail, then the A key
\* and frames of 1/60 s.
StartFrames == 12

StartNext ==
    \/ \E sdlInit, window, renderer \in BOOLEAN : Initialize(sdlInit, window, renderer)
    \/ Setup
    \/ KeyDown("A")
    \/ Frame(StartFrames, RunDTs, {0})
    \/ UpdateBullets
    \/ Present

StartSpec == StartInit /\ [][StartNext]_vars

----------------------------------------------------------------------------
(* Properties *)

Sign(n) == IF n > 0 THEN 1 ELSE IF n < 0 THEN -1 ELSE 0

\* The step is the update of the layers of one frame.
UpdateStep == pc = "poll" /\ pc' = "bullets"

\* The step is a key event.
KeyStep == pc = "poll" /\ pc' = "poll"

\* The indices of the inactive bullets of a pool.
Inactive(pool) == { i \in 1..Len(pool) : pool[i].state = "inactive" }

\* The least element of a non-empty set of numbers.
Least(S) == CHOOSE i \in S : \A j \in S : i <= j

\* C1: a spawn with an inactive bullet in the pool overwrites the slot of the
\* lowest-index inactive bullet, leaves every other slot and the size of the
\* pool as they were; a spawn with no inactive bullet makes the pool one
\* longer and leaves every slot it had as it was.
C1_PoolReuse ==
    [][ (UpdateStep /\ probe'.spawned) =>
          IF Inactive(bullets) # {}
          THEN /\ Len(bullets') = Len(bullets)
               /\ bullets'[Least(Inactive(bullets))] # bullets[Least(Inactive(bullets))]
               /\ \A i \in 1..Len(bullets) :
                     i # Least(Inactive(bullets)) => bullets'[i] = bullets[i]
          ELSE /\ Len(bullets') = Len(bullets) + 1
               /\ \A i \in 1..Len(bullets) : bullets'[i] = bullets[i] ]_vars

\* A spawn has just taken the lowest of the inactive slots, which is not the
\* first slot of the pool, and another spawn before it made the pool grow.
C1_Witness ==
    /\ pc = "bullets"
    /\ probe.valid
    /\ probe.spawned
    /\ Inactive(probe.poolBefore) # {}
    /\ Least(Inactive(probe.poolBefore)) > 1
    /\ Len(bullets) = Len(probe.poolBefore)
    /\ bullets[Least(Inactive(probe.poolBefore))].state = "moving"

\* C2: the state of a pooled bullet changes only from moving to colliding,
\* from moving to inactive or from colliding to inactive; an inactive bullet
\* stays inactive through the update of the bullets, and leaves inactive only
\* when a spawn overwrites its slot, the lowest inactive one; a colliding
\* bullet never goes back to moving.
C2_BulletLifecycle ==
    [][ \A i \in 1..Len(bullets) :
          /\ i <= Len(bullets')
          /\ \/ bullets'[i].state = bullets[i].state
             \/ bullets[i].state = "moving" /\ bullets'[i].state \in {"colliding", "inactive"}
             \/ bullets[i].state = "colliding" /\ bullets'[i].state = "inactive"
             \/ /\ bullets[i].state = "inactive"
                /\ UpdateStep
                /\ probe'.spawned
                /\ i = Least(Inactive(bullets))
          /\ (bullets[i].state = "inactive" /\ ~UpdateStep)
                => bullets'[i].state = "inactive" ]_vars

\* The pool holds a bullet of each state, the inactive one before the others.
C2_Witness ==
    \E i, j, k \in 1..Len(bullets) :
        /\ i < j
        /\ i < k
        /\ bullets[i].state = "inactive"
        /\ bullets[j].state = "colliding"
        /\ bullets[k].state = "moving"

\* The net horizontal input of the keys held: exactly one of A and D.
NetInput == ("A" \in keys) # ("D" \in keys)

\* C3: the player's state changes only (a) from idle to running in an update
\* with net horizontal input, (b) from running to idle in an update without,
\* (c) from idle or running to jumping on a K key-down event, which adds
\* JUMP_FORCE to velocity.y, and (d) to idle in an update in which grounded
\* goes from false to true.  Every other key event, a K key-down while
\* jumping among them, leaves the state and the velocity as they were.
C3_StateMachine ==
    [][ /\ player'.state # player.state =>
              \/ /\ player.state = "idle" /\ player'.state = "running"
                 /\ UpdateStep /\ NetInput
              \/ /\ player.state = "running" /\ player'.state = "idle"
                 /\ UpdateStep /\ ~NetInput
              \/ /\ player.state \in {"idle", "running"} /\ player'.state = "jumping"
                 /\ KeyDown("K")
                 /\ player'.velocity.y = player.velocity.y + Vel(-200)
                 /\ player'.velocity.x = player.velocity.x
              \/ /\ player'.state = "idle"
                 /\ UpdateStep /\ ~player.grounded /\ player'.grounded
        /\ (KeyStep /\ ~(player.state \in {"idle", "running"} /\ KeyDown("K")))
              => /\ player'.state = player.state
                 /\ player'.velocity = player.velocity ]_vars

\* The player, running after an update with D held, has jumped on a K
\* key-down.
C3_Witness ==
    /\ pc = "poll"
    /\ probe.valid
    /\ probe.final.state = "running"
    /\ probe.final.grounded
    /\ player.state = "jumping"
    /\ player.velocity.y = Vel(-200)

\* C4: a player update in which grounded goes from false to true ends in
\* state idle whatever the state machine step set; any other player update
\* ends in the state the state machine step set.
C4_LandingReset ==
    probe.valid =>
        /\ probe.final.state = IF ~probe.start.grounded /\ probe.final.grounded
                               THEN "idle"
                               ELSE probe.fsm.state
        /\ pc = "bullets" => player.state = probe.final.state

\* The player lands in an update in which a held key had made it running.
C4_Witness ==
    /\ pc = "bullets"
    /\ probe.valid
    /\ ~probe.start.grounded
    /\ probe.final.grounded
    /\ probe.start.state = "idle"
    /\ probe.fsm.state = "running"
    /\ player.state = "idle"

\* The calls of collisionResponse that respond, in the last update of the
\* player and of each bullet: a player against a level object, a moving
\* bullet against any object.
Responses ==
    (IF probe.valid
     THEN { probe.log[k] : k \in { n \in 1..Len(probe.log) : probe.log[n].other = "level" } }
     ELSE {})
    \cup UNION { { bulletProbes[i].log[k] :
                     k \in { n \in 1..Len(bulletProbes[i].log) :
                               bulletProbes[i].log[n].before.state = "moving" } } :
                 i \in 1..Len(bulletProbes) }

\* C5: a response to an overlap narrower than high moves position.x by the
\* overlap's width against the sign of velocity.x and zeroes velocity.x, and
\* leaves position.y and velocity.y; a response to an overlap wider than
\* high leaves position.x and velocity.x.
C5_MinimumPenetrationAxis ==
    \A e \in Responses :
        /\ e.rectC.w < e.rectC.h =>
              /\ e.after.position.x =
                     e.before.position.x - Sign(e.before.velocity.x) * e.rectC.w
              /\ e.after.velocity.x = 0
              /\ e.after.position.y = e.before.position.y
              /\ e.after.velocity.y = e.before.velocity.y
        /\ e.rectC.w > e.rectC.h =>
              /\ e.after.position.x = e.before.position.x
              /\ e.after.velocity.x = e.before.velocity.x

\* A bullet with a vertical velocity has entered a level tile from the side,
\* by less than its height, and the response moved it back out.
C5_Witness ==
    \E e \in Responses :
        /\ e.before.type = "bullet"
        /\ e.other = "level"
        /\ 0 < e.rectC.w
        /\ e.rectC.w < e.rectC.h
        /\ e.before.velocity.x > 0
        /\ e.before.velocity.y # 0
        /\ e.after.position.x < e.before.position.x
        /\ e.after.velocity.y = e.before.velocity.y

\* What the gravity step of an update did, from its probe p.
GravityStep(p) ==
    IF p.start.dynamic /\ ~p.start.grounded
    THEN /\ TICKS * (p.gravity.velocity.y - p.start.velocity.y) = Vel(500) * p.dt
         /\ p.gravity = [p.start EXCEPT !.velocity.y = p.gravity.velocity.y]
    ELSE p.gravity = p.start

\* C6: the gravity step of an update adds exactly 500 * deltaTime to the
\* velocity.y of an object that is dynamic and not grounded at the start of
\* the update, before anything else changes, and leaves any other object as
\* it is; no level object and no bullet is dynamic, and none moves down by
\* gravity.
C6_GravityStep ==
    /\ probe.valid => GravityStep(probe)
    /\ \A i \in 1..Len(bulletProbes) :
          /\ GravityStep(bulletProbes[i])
          /\ ~bulletProbes[i].start.dynamic
    /\ \A i \in 1..Len(bullets) : ~bullets[i].dynamic
    /\ \A i \in 1..Len(layers[LAYER_IDX_LEVEL + 1]) :
          /\ ~layers[LAYER_IDX_LEVEL + 1][i].dynamic
          /\ layers[LAYER_IDX_LEVEL + 1][i].velocity = Vec(0, 0)

\* The last update took a jumping player in the air, and the grounded
\* player of the update before it was left alone, while bullets fly.
C6_Witness ==
    /\ probe.valid
    /\ probe.start.state = "jumping"
    /\ ~probe.start.grounded
    /\ probe.start.velocity.y < 0
    /\ probe.gravity.velocity.y > probe.start.velocity.y
    /\ Len(bulletProbes) > 0

\* p rests on a level object: it is grounded and idle, it has no velocity,
\* and the bottom edge of its collider lies on the top edge of the collider
\* of a level object under it.
Resting(p) ==
    /\ p.grounded
    /\ p.state = "idle"
    /\ p.velocity = Vec(0, 0)
    /\ \E i \in 1..Len(layers[LAYER_IDX_LEVEL + 1]) :
          LET t == ColliderRect(layers[LAYER_IDX_LEVEL + 1][i])
              c == ColliderRect(p)
          IN  /\ layers[LAYER_IDX_LEVEL + 1][i].type = "level"
              /\ t.y = c.y + c.h
              /\ t.x <= c.x + c.w
              /\ c.x <= t.x + t.w

\* C7: the update of a frame with no key held leaves a resting player
\* grounded, idle, without velocity and where it is.
C7_GroundSensorIdempotence ==
    [][ (UpdateStep /\ keys = {} /\ Resting(player)) =>
          /\ player'.grounded
          /\ player'.state = "idle"
          /\ player'.velocity = Vec(0, 0)
          /\ player'.position = player.position ]_vars

\* The player has rested through two updates without a key.
C7_Witness ==
    /\ pc = "bullets"
    /\ frames >= 3
    /\ probe.valid
    /\ probe.held = {}
    /\ Resting(probe.start)
    /\ Resting(player)
    /\ probe.start.animations # player.animations

\* The scenario's clamp, to the velocity v: with the A key held, the
\* velocity.x of the player is v at the end of every update in which the
\* accelerated velocity exceeds the maximum speed, and of every update that
\* starts with it.
ClampsTo(v) ==
    (probe.valid /\ "A" \in probe.held
       /\ probe.start.acceleration.x = Vel(300) /\ probe.start.maxSpeedX = Vel(100)) =>
        /\ Abs(probe.accelerated.velocity.x) > Vel(100) => probe.final.velocity.x = v
        /\ probe.start.velocity.x = v => probe.final.velocity.x = v
        /\ pc = "bullets" => player.velocity.x = probe.final.velocity.x

JumpTransition == player.state \in {"idle", "running"} /\ player'.state = "jumping"

\* C9 as stated: whenever the transition from idle or running to jumping
\* fires, velocity.y is exactly -200 right after the key event.
C9_JumpSetsVelocity == [][ JumpTransition => player'.velocity.y = Vel(-200) ]_vars

\* C9, amended: whenever the transition from idle or running to jumping
\* fires, velocity.y right after the key event is its value right before
\* the event plus -200, which is exactly -200 when that value was 0.
C9_JumpAddsVelocity ==
    [][ JumpTransition =>
          /\ player'.velocity.y = player.velocity.y + Vel(-200)
          /\ player.velocity.y = 0 => player'.velocity.y = Vel(-200) ]_vars

\* The player has jumped while falling: the update before the key event
\* left it running, in the air and moving down.
C9_Witness ==
    /\ pc = "poll"
    /\ probe.valid
    /\ probe.final.state = "running"
    /\ ~probe.final.grounded
    /\ probe.final.velocity.y > 0
    /\ player.state = "jumping"
    /\ player.velocity.y = probe.final.velocity.y + Vel(-200)
    /\ player.velocity.y # Vel(-200)

\* The colliders of the level objects.
LevelColliders ==
    { ColliderRect(layers[LAYER_IDX_LEVEL + 1][i]) :
        i \in { n \in 1..Len(layers[LAYER_IDX_LEVEL + 1]) :
                  layers[LAYER_IDX_LEVEL + 1][n].type = "level" } }

\* The level colliders over or under the collider of p.
Column(p) ==
    { t \in LevelColliders :
        /\ t.x <= ColliderRect(p).x + ColliderRect(p).w
        /\ ColliderRect(p).x <= t.x + t.w }

\* p falls under every level collider: none of them can come under its
\* sensor again.
Lost(p) ==
    /\ ~p.grounded
    /\ p.velocity.y >= 0
    /\ \A t \in LevelColliders : t.y + t.h < ColliderRect(p).y

\* C10 as stated, in the form a finite run refutes: while the player is
\* jumping, an update that does not end grounded does not decrease
\* velocity.y; and a jumping player with level colliders in its column never
\* falls under all the colliders of the level, from where it would stay
\* jumping forever.
C10_JumpCompletes ==
    /\ [][ (UpdateStep /\ player.state = "jumping" /\ ~player'.grounded)
              => player'.velocity.y >= player.velocity.y ]_vars
    /\ [](player.state = "jumping" /\ Column(player) # {} => ~Lost(player))

\* Every object of the program: the two layers and the bullet pool.
Objects ==
    { layers[LAYER_IDX_LEVEL + 1][i] : i \in 1..Len(layers[LAYER_IDX_LEVEL + 1]) }
      \cup { layers[LAYER_IDX_CHARACTERS + 1][i] :
               i \in 1..Len(layers[LAYER_IDX_CHARACTERS + 1]) }
      \cup { bullets[i] : i \in 1..Len(bullets) }

\* currentAnimation is -1 or an index (0-based) of the object's animations.
IndexInRange(o) ==
    o.currentAnimation = -1
      \/ (0 <= o.currentAnimation /\ o.currentAnimation < Len(o.animations))

\* C11: in every reachable state each object's currentAnimation is -1 or a
\* valid index of its animations: a level tile has -1 and no animation, the
\* player one of 0..4 of its 5 clips, a bullet one of 0..1 of its 2 clips.
C11_AnimationIndex ==
    \A o \in Objects :
        /\ IndexInRange(o)
        /\ o.type = "level" => o.currentAnimation = -1 /\ o.animations = << >>
        /\ o.type = "player" =>
              o.currentAnimation \in 0..4 /\ Len(o.animations) = Len(playerAnims)
        /\ o.type = "bullet" =>
              o.currentAnimation \in 0..1 /\ Len(o.animations) = Len(bulletAnims)

\* A bullet shows its impact clip, the last of its two, while the player
\* shows the shooting clip.
C11_Witness ==
    /\ player.currentAnimation = ANIM_PLAYER_SHOOT
    /\ \E i \in 1..Len(bullets) :
          /\ bullets[i].state = "colliding"
          /\ bullets[i].currentAnimation = ANIM_BULLET_HIT

\* The indices (0-based) of the objects of type player in the characters layer.
PlayerIndices ==
    { i \in 0..(Len(layers[LAYER_IDX_CHARACTERS + 1]) - 1) :
        layers[LAYER_IDX_CHARACTERS + 1][i + 1].type = "player" }

\* C12: in every reachable state every object of the bullet pool has type
\* bullet, every object of the two layers has type level or player, exactly
\* one object has type player, and playerIndex is the index of that object in
\* the characters layer.
C12_TypeTags ==
    /\ \A i \in 1..Len(bullets) : bullets[i].type = "bullet"
    /\ \A i \in 1..Len(layers[LAYER_IDX_LEVEL + 1]) :
          layers[LAYER_IDX_LEVEL + 1][i].type = "level"
    /\ \A i \in 1..Len(layers[LAYER_IDX_CHARACTERS + 1]) :
          layers[LAYER_IDX_CHARACTERS + 1][i].type \in {"level", "player"}
    /\ PlayerIndices = {playerIndex}
    /\ player.type = "player"
    /\ player.state \in {"idle", "running", "jumping"}
    /\ \A i \in 1..Len(bullets) : bullets[i].state \in {"moving", "colliding", "inactive"}

\* The pool holds two bullets, one of them in a slot that was taken again.
C12_Witness ==
    /\ Len(bullets) >= 2
    /\ probe.valid
    /\ probe.spawned
    /\ Inactive(probe.poolBefore) # {}

\* The slots in which pool q differs from pool p, the slots q has more counted.
Changed(p, q) ==
    { i \in 1..Len(q) : i > Len(p) \/ q[i] # p[i] }

\* The player's last update run again from the same start without the fire
\* key.  Stated right after "Update all objects", where the layers and the
\* viewport are those the update saw.
WithoutFire ==
    update(probe.start,
           layers[LAYER_IDX_LEVEL + 1] \o layers[LAYER_IDX_CHARACTERS + 1],
           Len(layers[LAYER_IDX_LEVEL + 1]) + playerIndex + 1,
           probe.poolBefore, probe.held \ {"J"}, mapViewport, probe.dt, 0).obj

\* C13: a player update spawns a bullet exactly when the J key is held and
\* the weapon timer, stepped by dt, has reached its timeout, whatever the
\* player's state; a spawn resets the timer to 0 and changes one slot of the
\* pool, an update without spawn adds dt to the timer and leaves the pool, so
\* the dt between two spawns is at least the timeout; and the update leaves
\* the player's state, position and velocity as it does without the fire key.
C13_CooldownGating ==
    (pc = "bullets" /\ probe.valid) =>
       /\ probe.start.state \in {"idle", "running", "jumping"}
       /\ probe.spawned <=> ("J" \in probe.held
                              /\ probe.start.weaponTimer + probe.dt >= WEAPON_TIMEOUT)
       /\ probe.spawned =>
             /\ probe.final.weaponTimer = 0
             /\ Cardinality(Changed(probe.poolBefore, bullets)) = 1
             /\ Len(bullets) <= Len(probe.poolBefore) + 1
       /\ ~probe.spawned =>
             /\ probe.final.weaponTimer = probe.start.weaponTimer + probe.dt
             /\ bullets = probe.poolBefore
       /\ probe.final.state = WithoutFire.state
       /\ probe.final.position = WithoutFire.position
       /\ probe.final.velocity = WithoutFire.velocity

\* The player fires while jumping and moving, for the second time.
C13_Witness ==
    /\ pc = "bullets"
    /\ probe.valid
    /\ probe.spawned
    /\ probe.start.state = "jumping"
    /\ probe.final.velocity.x # 0
    /\ Len(probe.poolBefore) >= 1

\* The position of o lies inside the rectangle R, its edges included.
Inside(o, R) ==
    /\ R.x <= o.position.x /\ o.position.x <= R.x + R.w
    /\ R.y <= o.position.y /\ o.position.y <= R.y + R.h

\* C14 as stated: in "Update bullets" a moving bullet whose position lies
\* outside the rectangle mapViewport (x, y, w, h) becomes inactive, and a
\* moving bullet whose position lies inside it and that overlaps no collider
\* stays moving.
C14_OffScreenCulling ==
    pc = "present" =>
       \A k \in 1..Len(bulletProbes) :
          bulletProbes[k].start.state = "moving" =>
             /\ ~Inside(bulletProbes[k].start, mapViewport)
                   => bulletProbes[k].final.state = "inactive"
             /\ (Inside(bulletProbes[k].start, mapViewport)
                   /\ bulletProbes[k].log = << >>)
                   => bulletProbes[k].final.state = "moving"

\* The impact clip of a bullet, and the elapsed time of bullet b's copy of it.
HitClip == bulletAnims[ANIM_BULLET_HIT + 1]

HitElapsed(b) == b.animations[ANIM_BULLET_HIT + 1]

\* In "Update bullets" a colliding bullet becomes inactive in the update that
\* finds its impact animation done and stays colliding in any other, and a
\* bullet that collides shows the impact clip from elapsed 0.
ImpactSteps(p) ==
    /\ p.start.state = "colliding" =>
          /\ p.start.currentAnimation = ANIM_BULLET_HIT
          /\ p.final.state = IF isDone(HitClip, HitElapsed(p.start))
                             THEN "inactive" ELSE "colliding"
    /\ (p.start.state = "moving" /\ p.final.state = "colliding") =>
          /\ p.final.currentAnimation = ANIM_BULLET_HIT
          /\ HitElapsed(p.final) = 0

\* The bullet of p ends its impact in this update.
ImpactEnds(p) == p.start.state = "colliding" /\ p.final.state = "inactive"

C16_ImpactStopsBullet ==
    pc = "present" =>
       \A k \in 1..Len(bulletProbes) :
          /\ (bulletProbes[k].fsm.state = "moving" /\ bulletProbes[k].log # << >>) =>
                /\ bulletProbes[k].final.state = "colliding"
                /\ bulletProbes[k].final.texture = "texBulletHit"
                /\ bulletProbes[k].final.currentAnimation = ANIM_BULLET_HIT
                /\ bulletProbes[k].final.velocity = Vec(0, 0)
          /\ bulletProbes[k].start.state = "colliding" =>
                /\ bulletProbes[k].final.velocity = Vec(0, 0)
                /\ bulletProbes[k].final.position = bulletProbes[k].start.position

\* C17 as stated: a response to an overlap as wide as high is horizontal:
\* it moves position.x by the overlap's width against the sign of velocity.x
\* and zeroes velocity.x, and leaves position.y and velocity.y.
C17_TieBreakHorizontal ==
    \A e \in Responses :
        e.rectC.w = e.rectC.h =>
           /\ e.after.position.x =
                  e.before.position.x - Sign(e.before.velocity.x) * e.rectC.w
           /\ e.after.velocity.x = 0
           /\ e.after.position.y = e.before.position.y
           /\ e.after.velocity.y = e.before.velocity.y

\* The animations of an object after a frame, from those before it: the one
\* selected after the update is stepped by dt once, no other is stepped.
SteppedOnce(before, after, dt) ==
    /\ Len(after.animations) = Len(before.animations)
    /\ \A n \in 1..Len(after.animations) :
          after.animations[n] =
             before.animations[n]
               + (IF n = after.currentAnimation + 1 THEN dt ELSE 0)

\* The step is "Update bullets".
BulletStep == pc = "bullets" /\ pc' = "present"

\* C18: key events are applied only before the frame's updates; the frame
\* then updates the objects of the layers, then the bullets of the pool as
\* the layers' update left it, one update each in the order of the pool, the
\* bullet spawned in the frame included, then presents; and the animation an
\* object shows after its update is stepped by deltaTime once, no other.
C18_FrameOrdering ==
    [][ /\ keys' # keys => KeyStep
        /\ pc' # pc => << pc, pc' >> \in { << "poll", "bullets" >>,
                                           << "bullets", "present" >>,
                                           << "present", "poll" >> }
        /\ UpdateStep =>
              /\ probe'.valid
              /\ probe'.start = player
              /\ probe'.dt = deltaTime'
              /\ probe'.poolBefore = bullets
              /\ SteppedOnce(player, player', deltaTime')
              /\ player'.currentAnimation = probe'.final.currentAnimation
              /\ Len(layers'[LAYER_IDX_LEVEL + 1]) = Len(layers[LAYER_IDX_LEVEL + 1])
              /\ \A i \in 1..Len(layers'[LAYER_IDX_LEVEL + 1]) :
                    SteppedOnce(layers[LAYER_IDX_LEVEL + 1][i],
                                layers'[LAYER_IDX_LEVEL + 1][i], deltaTime')
        /\ BulletStep =>
              /\ layers' = layers
              /\ Len(bullets') = Len(bullets)
              /\ Len(bulletProbes') = Len(bullets)
              /\ \A i \in 1..Len(bullets) :
                    /\ bulletProbes'[i].start = bullets[i]
                    /\ bulletProbes'[i].dt = deltaTime
                    /\ bullets'[i].currentAnimation
                          = bulletProbes'[i].final.currentAnimation
                    /\ bullets'[i].position = bulletProbes'[i].final.position
                    /\ SteppedOnce(bullets[i], bullets'[i], deltaTime)
        /\ (pc = "present" /\ pc' = "poll") =>
              layers' = layers /\ bullets' = bullets ]_vars

\* The frame's update of the player changed its animation and spawned a
\* bullet, and "Update bullets" has updated the pool, the new bullet included.
C18_Witness ==
    /\ pc = "present"
    /\ probe.valid
    /\ probe.spawned
    /\ probe.start.currentAnimation # probe.final.currentAnimation
    /\ Len(bullets) >= 2
    /\ Len(bulletProbes) = Len(bullets)
    /\ \E i \in 1..Len(bullets) :
          /\ bulletProbes[i].start.animations = << 0, 0 >>
          /\ bullets[i].animations = << deltaTime, 0 >>
          /\ bullets[i].position # bulletProbes[i].start.position

WithinMaxSpeed(o) == Abs(o.velocity.x) <= o.maxSpeedX

\* C20: after every update of an object, player, level tile or bullet, the
\* magnitude of its velocity.x is at most its maxSpeedX; so it is of every
\* object in every reachable state.
C20_SpeedBound ==
    /\ probe.valid => WithinMaxSpeed(probe.clamped) /\ WithinMaxSpeed(probe.final)
    /\ \A k \in 1..Len(bulletProbes) : WithinMaxSpeed(bulletProbes[k].final)
    /\ \A o \in Objects : WithinMaxSpeed(o)

\* The clamp has cut the player's velocity.x to its maximum, and a bullet
\* fired by the running player has been updated.
C20_Witness ==
    /\ probe.valid
    /\ Abs(probe.accelerated.velocity.x) > probe.accelerated.maxSpeedX
    /\ probe.final.velocity.x = Vel(PLAYER_MAX_SPEED)
    /\ \E k \in 1..Len(bulletProbes) :
          /\ bulletProbes[k].start.state = "moving"
          /\ bulletProbes[k].final.velocity.x > Vel(BULLET_SPEED)


\* The update of probe p took an idle player with no net horizontal input.
IdleNoInput(p) ==
    /\ p.valid
    /\ p.start.type = "player"
    /\ p.start.state = "idle"
    /\ ("A" \in p.held) = ("D" \in p.held)

\* C21: in an update of the idle player with no net horizontal input the
\* deceleration step moves velocity.x toward zero by 1.5 * acceleration.x *
\* deltaTime, or sets it to exactly 0 when its magnitude is smaller than that
\* step; the update never changes the sign of velocity.x and never increases
\* its magnitude; with deltaTime > 0 a non-zero velocity.x gets strictly
\* smaller in magnitude, and a zero velocity.x stays 0.
C21_IdleDeceleration ==
    IdleNoInput(probe) =>
        LET v == probe.start.velocity.x
            w == probe.fsm.velocity.x
            z == probe.final.velocity.x
            twice == 3 * probe.start.acceleration.x * probe.dt
        IN  /\ IF 2 * TICKS * Abs(v) < twice
               THEN w = 0
               ELSE 2 * TICKS * (v - w) = Sign(v) * twice
            /\ Sign(z) \in {0, Sign(v)}
            /\ Abs(z) <= Abs(v)
            /\ (probe.dt > 0 /\ v # 0) => Abs(z) < Abs(v)
            /\ v = 0 => z = 0
            /\ pc = "bullets" => player.velocity.x = z

\* With A and D both held the idle player, moving left, has slowed down by
\* one full step and still moves left.
C21_Witness ==
    /\ pc = "bullets"
    /\ IdleNoInput(probe)
    /\ probe.held = {"A", "D"}
    /\ probe.dt > 0
    /\ probe.start.velocity.x < 0
    /\ probe.fsm.velocity.x = probe.start.velocity.x + Vel(45)
    /\ player.velocity.x < 0


\* The step is the drawing of a frame.
PresentStep == pc = "present" /\ pc' = "poll"

\* A scroll offset advanced by -xVelocity * factor * deltaTime and reset to 0
\* once it is a full texture width away from the origin, on either side.
Wrapped(scrollPos, xVelocity, scrollFactor, dt) ==
    IF Abs(scrollPos - xVelocity * scrollFactor * dt) >= Px(BgTexW) * SS
    THEN 0
    ELSE scrollPos - xVelocity * scrollFactor * dt

\* C22: the drawing of a frame advances each background layer's scroll
\* offset by -playerVelocity.x * factor * deltaTime, from its own previous
\* value only, and resets it to 0 once it is a full texture width away from
\* the origin; after every frame the magnitude of each offset is less than
\* one texture width, whichever way the player moves.
C22_ParallaxWrap ==
    /\ [][ PresentStep =>
             /\ bg4Scroll' = Wrapped(bg4Scroll, player.velocity.x, 3, deltaTime)
             /\ bg3Scroll' = Wrapped(bg3Scroll, player.velocity.x, 6, deltaTime)
             /\ bg2Scroll' = Wrapped(bg2Scroll, player.velocity.x, 12, deltaTime)
         ]_vars
    /\ [](/\ Abs(bg4Scroll) < Px(BgTexW) * SS
          /\ Abs(bg3Scroll) < Px(BgTexW) * SS
          /\ Abs(bg2Scroll) < Px(BgTexW) * SS)


\* The update of probe p took a running player that was grounded and moving
\* against the direction it faced, with the fire key up: the sliding case.
Sliding(p) ==
    /\ p.valid
    /\ p.start.type = "player"
    /\ p.start.state = "running"
    /\ p.start.grounded
    /\ p.gravity.velocity.x * p.start.direction < 0
    /\ "J" \notin p.held

\* C23: an update of the running, grounded player moving against its facing
\* direction, with the fire key up, leaves it with the slide texture and the
\* slide animation, a clip of 1 frame whose displayed frame is always 0; the
\* state machine step leaves the state running while there is net horizontal
\* input.
C23_SlidePose ==
    Sliding(probe) =>
        /\ probe.final.texture = "texSlide"
        /\ probe.final.currentAnimation = ANIM_PLAYER_SLIDE
        /\ playerAnims[probe.final.currentAnimation + 1].numFrames = 1
        /\ \A elapsed \in 0..playerAnims[probe.final.currentAnimation + 1].speed :
              currentFrame(playerAnims[probe.final.currentAnimation + 1], elapsed) = 0
        /\ (("A" \in probe.held) # ("D" \in probe.held)) => probe.fsm.state = "running"


\* The slot a spawn in the next update writes: the lowest inactive one, or a
\* new one at the end of the pool.
SpawnSlot == IF Inactive(bullets) # {} THEN Least(Inactive(bullets))
             ELSE Len(bullets) + 1

\* The sign of the horizontal input of the keys held.
InputSign == (IF "D" \in keys THEN 1 ELSE 0) - (IF "A" \in keys THEN 1 ELSE 0)

\* C24: the direction of every object is -1 or 1 in every reachable state;
\* the player's direction changes only in an update with net horizontal
\* input, after which it is the sign of that input; a spawned bullet has the
\* direction the player had when the update spawned it, and the direction of
\* a pooled bullet changes only when a spawn overwrites its slot.
C24_FacingDirection ==
    /\ [](\A o \in Objects : o.direction \in {-1, 1})
    /\ [][ /\ player'.direction # player.direction => UpdateStep /\ NetInput
           /\ (UpdateStep /\ NetInput) => player'.direction = InputSign
           /\ (UpdateStep /\ probe'.spawned) =>
                 bullets'[SpawnSlot].direction = player.direction
           /\ \A i \in 1..Len(bullets) :
                 (\/ i > Len(bullets')
                  \/ bullets'[i].direction # bullets[i].direction)
                    => UpdateStep /\ probe'.spawned /\ i = SpawnSlot ]_vars

\* A bullet fired to the left is still moving after the update that turned
\* the player to the right.
C24_Witness ==
    /\ pc = "bullets"
    /\ probe.valid
    /\ probe.start.direction = -1
    /\ player.direction = 1
    /\ \E i \in 1..Len(bullets) :
          bullets[i].state = "moving" /\ bullets[i].direction = -1


\* Rectangles A and B overlap in a region of positive area.
Penetrates(A, B) ==
    /\ Intersection(A, B).w > 0
    /\ Intersection(A, B).h > 0

\* C25: at the end of every player update the player's collider has no
\* positive-area overlap with the collider of any level object, and every
\* response of the player to a level object, whatever the velocity on the
\* axis chosen, leaves no positive-area overlap with that object.
C25_NoPenetration ==
    (probe.valid /\ probe.start.type = "player") =>
        /\ \A t \in LevelColliders : ~Penetrates(ColliderRect(probe.final), t)
        /\ \A k \in 1..Len(probe.log) :
              probe.log[k].other = "level" =>
                  ~Penetrates(ColliderRect(probe.log[k].after), probe.log[k].rectB)


\* C26: whenever the player is grounded at the end of an update, its
\* velocity.y is 0.
C26_GroundedAtRest ==
    (probe.valid /\ probe.start.type = "player" /\ probe.final.grounded) =>
        probe.final.velocity.y = 0


\* C27: between two consecutive landings of the player (updates in which
\* grounded goes from false to true) the jump impulse is applied at most
\* once, whatever the key events and frames in between; a K key-down while
\* jumping leaves velocity.y and the count as they were.
C27_NoDoubleJump ==
    /\ [](impulses <= 1)
    /\ [][ (KeyStep /\ player.state = "jumping") =>
              /\ player'.velocity.y = player.velocity.y
              /\ impulses' = impulses ]_vars

\* The player lands from its one jump since the landing before, on the tile
\* it started on: a jump before the first frame lands in the 7th, a jump
\* after that landing not before the 16th, so that a landing in the 10th or
\* later follows the landing of the first frame and a jump from the ground.
\* The update took the player jumping and in the air, moving down, and left
\* it grounded.
C27_Witness ==
    /\ pc = "bullets"
    /\ frames >= 10
    /\ player.position = charactersLayer[playerIndex + 1].position
    /\ probe.valid
    /\ probe.start.state = "jumping"
    /\ ~probe.start.grounded
    /\ probe.start.velocity.y > 0
    /\ player.grounded
    /\ player.state = "idle"
    /\ impulses = 0


\* The sign of the horizontal input of the keys of held.
HeldSign(held) == (IF "D" \in held THEN 1 ELSE 0) - (IF "A" \in held THEN 1 ELSE 0)

\* C28: whenever the clamp fires in a player update there is net horizontal
\* input and the velocity.x it finds has the sign of that input, so that the
\* clamp assigns the maximum speed with the sign velocity.x already has,
\* never 0 and never the opposite sign; when it does not fire it leaves
\* velocity.x; and in every update with net horizontal input the velocity.x
\* the clamp finds is that of the start of the update plus
\* acceleration.x * deltaTime in the direction of the input.
C28_ClampKeepsSign ==
    (probe.valid /\ probe.start.type = "player") =>
        LET dir == HeldSign(probe.held)
            pre == probe.accelerated.velocity.x
            post == probe.clamped.velocity.x
        IN  /\ Abs(pre) > probe.start.maxSpeedX =>
                  /\ dir # 0
                  /\ Sign(pre) = dir
                  /\ post = dir * probe.start.maxSpeedX
                  /\ Sign(post) = Sign(pre)
            /\ Abs(pre) <= probe.start.maxSpeedX => post = pre
            /\ dir # 0 =>
                  TICKS * (pre - probe.start.velocity.x)
                      = dir * probe.start.acceleration.x * probe.dt

\* After moving right the player has moved left, step by step, up to the
\* update in which the clamp fires at the maximum speed to the left: it is
\* less than the 28 px left of its first position that it takes to reach
\* that speed from rest.
C28_Witness ==
    /\ pc = "bullets"
    /\ probe.valid
    /\ probe.held = {"A"}
    /\ probe.start.velocity.x < 0
    /\ probe.start.velocity.x > -probe.start.maxSpeedX
    /\ probe.accelerated.velocity.x < -probe.start.maxSpeedX
    /\ player.velocity.x = -player.maxSpeedX
    /\ player.grounded
    /\ player.position.x > charactersLayer[playerIndex + 1].position.x - Px(28)


\* The bullets in flight at this frame or before are those the remaining
\* frames give the time to end.
ReclaimBy == 10

\* The most bullets the pool comes to hold.
ReclaimPool == 8

\* C29: with frames of deltaTime > 0 that keep coming, every bullet that is
\* moving or colliding eventually is inactive, whatever the player does
\* meanwhile (it stands, runs or falls, firing all the time); and the pool,
\* whose slots are taken again, stays within a fixed size while the spawns
\* go on.
C29_BulletsReclaimed ==
    /\ \A i \in 1..ReclaimPool :
          (frames <= ReclaimBy /\ i <= Len(bullets) /\ bullets[i].state # "inactive")
             ~> (i <= Len(bullets) /\ bullets[i].state = "inactive")
    /\ [](Len(bullets) <= ReclaimPool)

\* Late in the run the pool holds a bullet that ended after its impact, a
\* bullet that ended on leaving the viewport, and a moving one.
C29_Witness ==
    /\ frames > ReclaimBy
    /\ \E i, j, k \in 1..Len(bullets) :
          /\ bullets[i].state = "inactive" /\ bullets[i].texture = "texBulletHit"
          /\ bullets[j].state = "inactive" /\ bullets[j].texture = "texBullet"
          /\ bullets[k].state = "moving"


\* The slot the last spawn took: the lowest inactive one of the pool the
\* update found, or the one after its last.
ProbeSlot ==
    IF Inactive(probe.poolBefore) # {} THEN Least(Inactive(probe.poolBefore))
    ELSE Len(probe.poolBefore) + 1

\* The bullet the player's last update pushes to an empty pool, where no slot
\* can be taken again, with r the value of SDL_rand(yVariation).
Appended(r) ==
    update(probe.start,
           layers[LAYER_IDX_LEVEL + 1] \o layers[LAYER_IDX_CHARACTERS + 1],
           Len(layers[LAYER_IDX_LEVEL + 1]) + playerIndex + 1,
           << >>, probe.held, mapViewport, probe.dt, r).bullets[1]

\* C30: right after an update that spawned, the slot taken holds the bullet
\* the same update would have appended to an empty pool, whether the slot was
\* taken again or added: state moving, the moving texture and animation, both
\* animation clocks at 0, the direction and the offset position of the
\* shooter and its velocity.x plus 600 px/s in that direction; nothing
\* depends on the bullet the slot held before.
C30_ReuseEqualsAppend ==
    (pc = "bullets" /\ probe.valid /\ probe.spawned) =>
       /\ ProbeSlot \in 1..Len(bullets)
       /\ \E r \in { q \in 0..(yVariation - 1) :
                       Vel(q) - Vel(yVariation) \div 2 = bullets[ProbeSlot].velocity.y } :
             bullets[ProbeSlot] = Appended(r)
       /\ bullets[ProbeSlot].type = "bullet"
       /\ bullets[ProbeSlot].state = "moving"
       /\ bullets[ProbeSlot].texture = "texBullet"
       /\ bullets[ProbeSlot].currentAnimation = ANIM_BULLET_MOVING
       /\ bullets[ProbeSlot].animations = << 0, 0 >>
       /\ bullets[ProbeSlot].direction = probe.start.direction
       /\ bullets[ProbeSlot].position =
             Vec(probe.start.position.x
                   + (IF probe.start.direction = 1 THEN Px(left + right) ELSE Px(left)),
                 probe.start.position.y + Px(TILE_SIZE \div 2 + 1))
       /\ bullets[ProbeSlot].velocity.x =
             probe.fsm.velocity.x + Vel(BULLET_SPEED) * probe.start.direction

\* A spawn has just taken the slot of a bullet that ended after its impact,
\* with the clock of its impact animation run and at another position.
C30_Witness ==
    /\ pc = "bullets"
    /\ probe.valid
    /\ probe.spawned
    /\ Inactive(probe.poolBefore) # {}
    /\ probe.poolBefore[ProbeSlot].texture = "texBulletHit"
    /\ probe.poolBefore[ProbeSlot].currentAnimation = ANIM_BULLET_HIT
    /\ probe.poolBefore[ProbeSlot].animations[ANIM_BULLET_HIT + 1] > 0
    /\ probe.poolBefore[ProbeSlot].position # bullets[ProbeSlot].position
    /\ bullets[ProbeSlot].state = "moving"


\* What of an object the movement of the player consists of.
Locomotion(o) ==
    [ position |-> o.position, velocity |-> o.velocity, direction |-> o.direction,
      grounded |-> o.grounded, state |-> o.state ]

\* The player with nothing left of its firing: the weapon timer, the texture
\* and the animation are those of GameState's player at startup.
Disarmed(o) ==
    [o EXCEPT !.weaponTimer = 0, !.texture = "texIdle",
              !.currentAnimation = ANIM_PLAYER_IDLE,
              !.animations = [k \in 1..Len(o.animations) |-> 0]]

\* The player's last update run again from the same movement with the same
\* movement keys and deltaTime, without the fire key, with a player that never
\* fired and with an empty pool.
Unarmed ==
    update(Disarmed(probe.start),
           layers[LAYER_IDX_LEVEL + 1] \o layers[LAYER_IDX_CHARACTERS + 1],
           Len(layers[LAYER_IDX_LEVEL + 1]) + playerIndex + 1,
           << >>, probe.held \ {"J"}, mapViewport, probe.dt, 0).obj

\* C31: the player's update leaves the position, velocity, direction,
\* grounded flag and state it leaves when run without the fire key, from a
\* player that never fired and with an empty pool; none of the objects the
\* update tests for a collision or for the ground is a bullet; and between
\* two updates of the layers only a key event of a movement or jump key
\* changes any of the five, as it changes them for a player that never
\* fired: not the fire key, not "Update bullets", not the drawing.
C31_BulletsLeavePlayer ==
    /\ []((pc = "bullets" /\ probe.valid) =>
            /\ Locomotion(probe.final) = Locomotion(Unarmed)
            /\ Locomotion(player) = Locomotion(probe.final)
            /\ \A k \in 1..Len(probe.log) : probe.log[k].other # "bullet"
            /\ \A l \in 1..Len(layers) : \A n \in 1..Len(layers[l]) :
                  layers[l][n].type # "bullet")
    /\ [][ /\ (\/ pc # "poll"
               \/ ~UpdateStep /\ ("J" \in keys) # ("J" \in keys'))
                 => Locomotion(player') = Locomotion(player)
           /\ KeyStep =>
                 \E key \in Keys, down \in BOOLEAN :
                    Locomotion(player') =
                       Locomotion(handleKeyInput(Disarmed(player), key, down)) ]_vars

\* The player, airborne and moving, has just fired again with the fire key
\* held, while a bullet of the pool is in flight and another has hit.
C31_Witness ==
    /\ pc = "bullets"
    /\ probe.valid
    /\ probe.spawned
    /\ "J" \in probe.held
    /\ probe.final.velocity.x # 0
    /\ probe.final.position # probe.start.position
    /\ \E i \in 1..Len(probe.poolBefore) : probe.poolBefore[i].state # "inactive"


\* The indices (1-based) of the level objects of the level layer whose
\* collider meets the collider of the player or of a bullet of the pool.
Overlapped ==
    { i \in 1..Len(layers[LAYER_IDX_LEVEL + 1]) :
        \/ Collides(layers[LAYER_IDX_LEVEL + 1][i], player)
        \/ \E b \in 1..Len(bullets) :
              Collides(layers[LAYER_IDX_LEVEL + 1][i], bullets[b]) }

\* Object i of the level layer after an update of its own in the current
\* state, with the keys held and the deltaTime of the frame.
LevelUpdate(i) ==
    update(layers[LAYER_IDX_LEVEL + 1][i],
           layers[LAYER_IDX_LEVEL + 1] \o layers[LAYER_IDX_CHARACTERS + 1],
           i, bullets, keys, mapViewport, deltaTime, 0).obj

\* What of a level object is to stay as createTiles made it.
Placement(o) ==
    [ type |-> o.type, position |-> o.position, velocity |-> o.velocity,
      currentAnimation |-> o.currentAnimation ]

\* C32: in every reachable state the two layers have the sizes createTiles
\* gave them, and every object of type level has the position createTiles
\* gave it, velocity 0 and currentAnimation -1; the update of a level object
\* whose collider the player or a bullet overlaps, and its collision check
\* against the player, leave the three as they are; no step changes the size
\* of a layer, and the only size a step changes is that of the bullet pool,
\* which it makes larger.
C32_StaticLevel ==
    /\ [](/\ Len(layers) = 2
          /\ Len(layers[LAYER_IDX_LEVEL + 1]) = Len(levelLayer)
          /\ Len(layers[LAYER_IDX_CHARACTERS + 1]) = Len(charactersLayer)
          /\ \A i \in 1..Len(levelLayer) :
                /\ Placement(layers[LAYER_IDX_LEVEL + 1][i]) = Placement(levelLayer[i])
                /\ layers[LAYER_IDX_LEVEL + 1][i].velocity = Vec(0, 0)
                /\ layers[LAYER_IDX_LEVEL + 1][i].currentAnimation = -1
          /\ \A i \in 1..Len(charactersLayer) :
                layers[LAYER_IDX_CHARACTERS + 1][i].type # "level"
          /\ \A i \in Overlapped :
                /\ Placement(LevelUpdate(i)) = Placement(levelLayer[i])
                /\ checkCollisions(layers[LAYER_IDX_LEVEL + 1][i], player)
                      = layers[LAYER_IDX_LEVEL + 1][i])
    /\ [][ /\ Len(layers'[LAYER_IDX_LEVEL + 1]) = Len(layers[LAYER_IDX_LEVEL + 1])
           /\ Len(layers'[LAYER_IDX_CHARACTERS + 1])
                 = Len(layers[LAYER_IDX_CHARACTERS + 1])
           /\ Len(bullets') >= Len(bullets) ]_vars

\* The frame is drawn with the player's collider sunk into a level object,
\* an impact of a bullet on another and a pool that has grown to two.
C32_Witness ==
    /\ pc = "present"
    /\ deltaTime > 0
    /\ Len(bullets) >= 2
    /\ \E i \in Overlapped :
          Penetrates(ColliderRect(player), ColliderRect(layers[LAYER_IDX_LEVEL + 1][i]))
    /\ \E i \in Overlapped : \E b \in 1..Len(bullets) :
          /\ bullets[b].state = "colliding"
          /\ Collides(layers[LAYER_IDX_LEVEL + 1][i], bullets[b])
          /\ ~Collides(layers[LAYER_IDX_LEVEL + 1][i], player)

====
